---- MODULE Spec2Model ----
(***************************************************************************)
(* Model of the task engine of pierre-chaville/lessons (backend/):         *)
(*   - the polling worker of worker.py and the task store of crud.py,      *)
(*   - the bounded-concurrency batch of tasks/correction.py.               *)
(* The persisted rows are `tasks` and `lessons`; every worker keeps an     *)
(* ORM copy `mem` of the task row it works on, written back by commit.     *)
(***************************************************************************)
EXTENDS Integers, Sequences, FiniteSets, TLC

VARIABLES
    tasks,       \* task table: sequence of rows, the id is the index
    lessons,     \* lesson table: id -> row of stage outputs
    clock,       \* the value datetime.utcnow() returns
    should_stop, \* worker.py global flag
    pc,          \* position of each worker in worker_loop / process_task
    cur,         \* id of the task a worker fetched (0: none)
    mem,         \* the worker session's copy of that task row
    sessionOK,   \* FALSE once a commit raised and no rollback followed
    hres,        \* return value of the job handler
    exc,         \* message of the exception process_task caught
    hexc,        \* message of the exception the job handler caught (NoMsg: none)
    batch,       \* state of one handler run: a correction / edition batch or
                 \* a summary with its retry loop (see below)
    search       \* state of one find_matching_segments call (see below)

vars == <<tasks, lessons, clock, should_stop, pc, cur, mem, sessionOK, hres,
          exc, hexc, batch, search>>

workerVars == <<pc, cur, mem, sessionOK, hres, exc, hexc>>

\* ---------------------------------------------------------------- bounds
MaxTasks == 2
MaxClock == 1

\* ------------------------------------------------------------- constants
\* Python None in the numeric columns (start_date, end_date, duration)
None == -1
\* Python None in result / error / exception messages (messages are tuples)
NoMsg == <<>>

Workers == {1, 2}
LessonIds == {1}

KnownTypes == {"transcription", "correction", "edition", "summary"}
TaskTypes == KnownTypes \cup {"frobnicate"}
Terminal == {"completed", "failed"}

\* parameters a created task may carry: lesson_id 0 stands for a parameters
\* map without lesson_id
TaskInputs ==
    {[task_type |-> "transcription", lesson_id |-> 1, use_corrected |-> TRUE],
     [task_type |-> "correction", lesson_id |-> 0, use_corrected |-> TRUE],
     [task_type |-> "correction", lesson_id |-> 1, use_corrected |-> TRUE],
     [task_type |-> "frobnicate", lesson_id |-> 1, use_corrected |-> TRUE]}

\* tasks of every stage on the lesson, a summary of the raw transcript, a
\* task on a lesson id that does not exist and one of an unknown type
StageInputs ==
    {[task_type |-> "transcription", lesson_id |-> 1, use_corrected |-> TRUE],
     [task_type |-> "correction", lesson_id |-> 1, use_corrected |-> TRUE],
     [task_type |-> "edition", lesson_id |-> 1, use_corrected |-> TRUE],
     [task_type |-> "summary", lesson_id |-> 1, use_corrected |-> TRUE],
     [task_type |-> "summary", lesson_id |-> 1, use_corrected |-> FALSE],
     [task_type |-> "correction", lesson_id |-> 2, use_corrected |-> TRUE],
     [task_type |-> "frobnicate", lesson_id |-> 1, use_corrected |-> TRUE]}

TaskIds == 1..Len(tasks)

\* ------------------------------------------------------------ task store
\* models.Task as crud.create_task builds it
NewTask(inp, now) ==
    [task_type |-> inp.task_type, status |-> "pending",
     start_date |-> None, end_date |-> None, duration |-> None,
     lesson_id |-> inp.lesson_id, use_corrected |-> inp.use_corrected,
     result |-> NoMsg, error |-> NoMsg, created_at |-> now]

\* update_task_status with the duration measured from created_at
UpdateTaskStatusM(t, status, now, kw) ==
    LET t1 == [t EXCEPT !.status = status]
        t2 == IF status = "running" /\ t1.start_date = None
              THEN [t1 EXCEPT !.start_date = now] ELSE t1
        t3 == IF status \in Terminal /\ t2.end_date = None
              THEN [t2 EXCEPT !.end_date = now, !.duration = now - t2.created_at]
              ELSE t2
    IN [f \in DOMAIN t3 |-> IF f \in DOMAIN kw THEN kw[f] ELSE t3[f]]

\* worker.update_task_status, up to the commit: the new ORM object
UpdateTaskStatus(t, status, now, kw) ==
    LET t1 == [t EXCEPT !.status = status]
        t2 == IF status = "running" /\ t1.start_date = None
              THEN [t1 EXCEPT !.start_date = now] ELSE t1
        t3 == IF status \in Terminal /\ t2.end_date = None
              THEN IF t2.start_date # None
                   THEN [t2 EXCEPT !.end_date = now,
                                   !.duration = now - t2.start_date]
                   ELSE [t2 EXCEPT !.end_date = now]
              ELSE t2
    IN [f \in DOMAIN t3 |-> IF f \in DOMAIN kw THEN kw[f] ELSE t3[f]]

\* the UPDATE a flush emits: only the attributes the session changed
Flush(row, old, new) ==
    [f \in DOMAIN row |-> IF new[f] # old[f] THEN new[f] ELSE row[f]]

\* ORDER BY created_at ... first(): the rows of S no other row of S precedes
OldestCreatedAt(S) ==
    {i \in S : \A j \in S : tasks[i].created_at <= tasks[j].created_at}

\* a query that leaves out only the running rows
PendingIdsM == {i \in TaskIds : tasks[i].status # "running"}
\* WHERE status == "pending"
PendingIds == {i \in TaskIds : tasks[i].status = "pending"}

\* a query that skips the rows another worker holds (a claim lock)
GetPendingTaskM ==
    OldestCreatedAt({i \in PendingIds : \A w \in Workers : cur[w] # i})

\* worker.get_pending_task: the query has no second sort key, so any of the
\* oldest pending rows may come first
GetPendingTask == OldestCreatedAt(PendingIds)

\* ------------------------------------------------------------ lesson store
\* a stage output is 0 (None) or the id of the task that wrote it

NoLesson == [transcript |-> 0, corrected_transcript |-> 0,
             edited_transcript |-> 0, summary |-> 0, duration |-> 0,
             transcript_metadata |-> 0, correction_metadata |-> 0,
             edited_metadata |-> 0, summary_metadata |-> 0]

\* the Lesson column a job handler writes
OutputField(task_type) ==
    CASE task_type = "transcription" -> "transcript"
      [] task_type = "correction" -> "corrected_transcript"
      [] task_type = "edition" -> "edited_transcript"
      [] OTHER -> "summary"

\* the metadata column the handler sets with it
MetadataField(task_type) ==
    CASE task_type = "transcription" -> "transcript_metadata"
      [] task_type = "correction" -> "correction_metadata"
      [] task_type = "edition" -> "edited_metadata"
      [] OTHER -> "summary_metadata"

\* a handler that commits the output before it sets the metadata
HandlerWriteM(lesson, task_type, id) ==
    [lesson EXCEPT ![OutputField(task_type)] = id]

\* the Lesson row a handler's commit persists: the output, its metadata and,
\* for transcription, the duration, in one transaction
HandlerWrite(lesson, task_type, id) ==
    [lesson EXCEPT ![OutputField(task_type)] = id,
                   ![MetadataField(task_type)] = id,
                   !.duration = IF task_type = "transcription" THEN id ELSE @]

\* handlers that check only that the lesson exists
HasPrecursorM(t) == t.lesson_id \in LessonIds

\* the loading part of the handlers: the lesson exists and has the
\* transcript the stage reads
HasPrecursor(t) ==
    /\ t.lesson_id \in LessonIds
    /\ LET l == lessons[t.lesson_id] IN
       CASE t.task_type = "transcription" -> TRUE
         [] t.task_type = "correction" -> l.transcript # 0
         [] t.task_type = "edition" ->
                l.corrected_transcript # 0 \/ l.transcript # 0
         [] OTHER ->
                (t.use_corrected /\ l.corrected_transcript # 0)
                    \/ l.transcript # 0

\* ------------------------------------------------------------ messages
CommitError == <<"commit error">>
LlmError == <<"429 rate limit">>
MissingLessonId == <<"lesson_id is required in task parameters">>

\* f"Unknown task type: {task.task_type}"
UnknownTypeError(task_type) == <<"Unknown task type: ", task_type>>

\* the fixed error each process_*_task stores when its handler returned False
FailedError(task_type) ==
    CASE task_type = "transcription" -> <<"Transcription failed">>
      [] task_type = "correction" -> <<"Correction failed">>
      [] task_type = "edition" -> <<"Edition failed">>
      [] OTHER -> <<"Summary generation failed">>

\* a completed update that stores no result
SuccessResultM(t) == NoMsg

\* the result each process_*_task stores when its handler returned True
SuccessResult(t) ==
    CASE t.task_type = "transcription" ->
             <<"Transcription completed successfully", t.lesson_id>>
      [] t.task_type = "correction" ->
             <<"Correction completed successfully", t.lesson_id>>
      [] t.task_type = "edition" ->
             <<"Edition completed successfully", t.lesson_id>>
      [] OTHER ->
             <<"Summary generated successfully", t.lesson_id, t.use_corrected>>

\* a dispatch chain whose last branch is taken for every other type
IsKnownTypeM(task_type) == TRUE
\* the if / elif chain of process_task
IsKnownType(task_type) == task_type \in KnownTypes

NoKw == [f \in {} |-> NoMsg]
NoTask == NewTask([task_type |-> "", lesson_id |-> 0, use_corrected |-> TRUE], None)

\* ------------------------------------------------------------ batch
\* correct_transcript_async on a lesson: the transcript is split into groups,
\* one coroutine per group runs under asyncio.Semaphore(max_concurrency),
\* gather joins them and the results are put back in index order.
MaxSegs == 3
MaxSegsPerGroup == 2
MaxConcurrency == 2
MaxParts == 2

\* correction.py / edition.py / summary.py retry configuration
MAX_RETRIES == 5
INITIAL_RETRY_DELAY == 1
MAX_RETRY_DELAY == 60

Min(a, b) == IF a < b THEN a ELSE b

\* a text is the index of the segment it was derived from and whether the
\* LLM rewrote it
OrigText(idx) == [src |-> idx, corrected |-> FALSE]
Corrected(text) == [text EXCEPT !.corrected = TRUE]

\* a transcript of n segments (indices are Python's, from 0)
Transcript(n) ==
    [i \in 1..n |-> [start |-> 2 * (i - 1), end |-> 2 * (i - 1) + 1,
                     text |-> OrigText(i - 1)]]

\* groups numbered from 0 in every group
SegmentGroupsM(segments, segments_per_group) ==
    LET n == Len(segments)
        ng == Cardinality({i \in 0..(n - 1) : i % segments_per_group = 0})
    IN [j \in 1..ng |->
          LET i == (j - 1) * segments_per_group IN
          [q \in 1..Min(segments_per_group, n - i) |-> <<q - 1, segments[i + q]>>]]

\* a grouping that keeps only the full groups
SegmentGroupsFullM(segments, segments_per_group) ==
    LET n == Len(segments)
        ng == n \div segments_per_group
    IN [j \in 1..ng |->
          LET i == (j - 1) * segments_per_group IN
          [q \in 1..segments_per_group |-> <<i + q - 1, segments[i + q]>>]]

\* for i in range(0, len(segments), segments_per_group):
\*     group = list(enumerate(segments[i:i + segments_per_group], start=i))
\* (a negative step counts down from 0 and yields nothing; step 0 raises
\* before this is reached, see BatchStart)
SegmentGroups(segments, segments_per_group) ==
    LET n == Len(segments)
        starts == IF segments_per_group < 0 THEN {}
                  ELSE {i \in 0..(n - 1) : i % segments_per_group = 0}
        ng == Cardinality(starts)
    IN [j \in 1..ng |->
          LET i == (j - 1) * segments_per_group IN
          [q \in 1..Min(segments_per_group, n - i) |->
              <<i + q - 1, segments[i + q]>>]]

\* an LLM response is the sequence of the ids of result.segments. The
\* responses tried for a group of L segments: the ids 1..L with any of them
\* left out, with one of them replaced by an id of 0..L+1 (a duplicate or an
\* id outside the group), or followed by one more entry with such an id
Responses(group) ==
    LET L == Len(group)
        full == [i \in 1..L |-> i]
    IN {SelectSeq(full, LAMBDA i : i \in S) : S \in SUBSET (1..L)}
       \union {[full EXCEPT ![p] = x] : p \in 1..L, x \in 0..(L + 1)}
       \union {Append(full, x) : x \in 0..(L + 1)}

\* next((seg for seg in result.segments if seg.id == id), None) found one
HasId(response, id) == \E k \in 1..Len(response) : response[k] = id

\* a mapping that gives up the whole group when an id is missing
CorrectSegmentGroupM(group, response) ==
    [q \in 1..Len(group) |->
        <<group[q][1],
          IF \A r \in 1..Len(group) : HasId(response, r)
          THEN Corrected(group[q][2].text) ELSE group[q][2].text>>]

\* correct_segment_group after the LLM answered: the i-th segment of the
\* group takes the text of the first entry with id i; without such an entry
\* it falls back to its original text
CorrectSegmentGroup(group, response) ==
    [q \in 1..Len(group) |->
        <<group[q][1],
          IF HasId(response, q)
          THEN Corrected(group[q][2].text) ELSE group[q][2].text>>]

\* correct_segment_group's except clause: the original texts
OriginalTexts(group) ==
    [q \in 1..Len(group) |-> <<group[q][1], group[q][2].text>>]

\* edit_segment_group after the LLM answered: result.parts, here np parts
\* marked with the group and their place in the answer (the segments of an
\* edition group are the second components of the group's pairs)
EditedParts(j, group, np) ==
    [q \in 1..np |->
        [start |-> group[1][2].start, end |-> group[Len(group)][2].end,
         text |-> <<"edited", j, q>>, sources |-> <<<<"source", j, q>>>>]]

\* a failed group contributes no part
FallbackPartM(group) == <<>>

\* edit_segment_group's except clause: one part spanning the group, the
\* original texts joined in order, no sources
FallbackPart(group) ==
    <<[start |-> group[1][2].start, end |-> group[Len(group)][2].end,
       text |-> [q \in 1..Len(group) |-> group[q][2].text],
       sources |-> <<>>]>>

\* results in the order the groups completed
GatherM(results, order) == [i \in 1..Len(order) |-> results[order[i]]]
\* asyncio.gather(*tasks): the results in the order of the tasks
Gather(results, order) == results

\* correct_segment_group lets the LLM's exception out
GroupCallPropagatesM == TRUE
\* does an exception of llm_with_structure.ainvoke leave correct_segment_group?
\* Its whole body is inside `try ... except Exception`, which returns
GroupCallPropagates == FALSE

\* Semaphore.acquire does not block
CanAcquireM(value) == TRUE
CanAcquire(value) == value > 0

\* for group_result in results: all_corrections.extend(group_result)
RECURSIVE Flatten(_)
Flatten(results) ==
    IF results = <<>> THEN <<>>
    ELSE Head(results) \o Flatten(Tail(results))

\* list.sort(key=lambda x: x[0]): stable, by insertion
RECURSIVE Insert(_, _)
Insert(sorted, x) ==
    IF sorted = <<>> THEN <<x>>
    ELSE IF sorted[Len(sorted)][1] <= x[1] THEN Append(sorted, x)
    ELSE Append(Insert(SubSeq(sorted, 1, Len(sorted) - 1), x), sorted[Len(sorted)])

RECURSIVE SortByIndex(_)
SortByIndex(all) ==
    IF all = <<>> THEN <<>>
    ELSE Insert(SortByIndex(SubSeq(all, 1, Len(all) - 1)), all[Len(all)])

\* the loop building corrected_segments: Segment(start, end of segments[idx],
\* text = corrected_text) for every pair whose idx < len(segments)
RECURSIVE Reassemble(_, _)
Reassemble(segments, all) ==
    IF all = <<>> THEN <<>>
    ELSE LET idx == Head(all)[1]
             rest == Reassemble(segments, Tail(all))
         IN IF idx < Len(segments)
            THEN <<[start |-> segments[idx + 1].start,
                    end |-> segments[idx + 1].end,
                    text |-> Head(all)[2]]>> \o rest
            ELSE rest

BatchIdle == [phase |-> "off"]

SearchIdle == [phase |-> "off"]

NoResponse == [group |-> 0, response |-> <<>>]

\* the state of the run once the lesson's transcript is loaded
NewBatch(kind, n, segments_per_group, max_concurrency) ==
    [phase |-> "start",
     kind |-> kind,
     segments |-> Transcript(n),
     segments_per_group |-> segments_per_group,
     max_concurrency |-> max_concurrency,
     groups |-> <<>>,
     st |-> <<>>,
     results |-> <<>>,
     attempts |-> <<>>,
     raised |-> <<>>,
     value |-> 0,
     waiters |-> <<>>,
     order |-> <<>>,
     last |-> NoResponse,
     corrected_transcript |-> <<>>,
     edited_transcript |-> <<>>]

GroupIds == IF batch.phase = "off" THEN {} ELSE 1..Len(batch.groups)
InFlight == {j \in GroupIds : batch.st[j] = "inflight"}
CorrectionDone == batch.phase = "done" /\ batch.kind = "correction"
EditionDone == batch.phase = "done" /\ batch.kind = "edition"

\* ------------------------------------------------------------ Init
Init ==
    /\ tasks = <<>>
    /\ lessons = [l \in LessonIds |-> NoLesson]
    /\ clock = 0
    /\ should_stop = FALSE
    /\ pc = [w \in Workers |-> "top"]
    /\ cur = [w \in Workers |-> 0]
    /\ mem = [w \in Workers |-> NoTask]
    /\ sessionOK = [w \in Workers |-> TRUE]
    /\ hres = [w \in Workers |-> FALSE]
    /\ exc = [w \in Workers |-> NoMsg]
    /\ hexc = [w \in Workers |-> NoMsg]
    /\ batch = BatchIdle
    /\ search = SearchIdle

\* ------------------------------------------------------------ environment
\* crud.create_task (POST /tasks)
CreateTask(inp) ==
    /\ Len(tasks) < MaxTasks
    /\ tasks' = Append(tasks, NewTask(inp, clock))
    /\ UNCHANGED <<lessons, clock, should_stop, workerVars, batch, search>>

\* time passes: datetime.utcnow() returns a later value
Tick ==
    /\ clock < MaxClock
    /\ clock' = clock + 1
    /\ UNCHANGED <<tasks, lessons, should_stop, workerVars, batch, search>>

\* worker.signal_handler (SIGINT / SIGTERM)
SignalHandler ==
    /\ ~should_stop
    /\ should_stop' = TRUE
    /\ UNCHANGED <<tasks, lessons, clock, workerVars, batch, search>>

\* ------------------------------------------------------------ worker
\* the end of one iteration of worker_loop: the session is closed
EndIteration(w) ==
    /\ pc' = [pc EXCEPT ![w] = "top"]
    /\ cur' = [cur EXCEPT ![w] = 0]
    /\ mem' = [mem EXCEPT ![w] = NoTask]
    /\ sessionOK' = [sessionOK EXCEPT ![w] = TRUE]
    /\ hres' = [hres EXCEPT ![w] = FALSE]
    /\ exc' = [exc EXCEPT ![w] = NoMsg]
    /\ hexc' = [hexc EXCEPT ![w] = NoMsg]

\* session.commit() of update_task_status succeeds, then session.refresh
CommitOK(w, new) ==
    /\ sessionOK[w]
    /\ tasks' = [tasks EXCEPT ![cur[w]] = Flush(@, mem[w], new)]

\* session.commit() of update_task_status raises inside process_task's try
CommitRaises(w) ==
    /\ sessionOK' = [sessionOK EXCEPT ![w] = FALSE]
    /\ exc' = [exc EXCEPT ![w] = CommitError]
    /\ pc' = [pc EXCEPT ![w] = "except"]
    /\ UNCHANGED <<tasks, cur, mem, hres, hexc>>

\* worker_loop: `while not should_stop` is false
WorkerStop(w) ==
    /\ pc[w] = "top"
    /\ should_stop
    /\ pc' = [pc EXCEPT ![w] = "stopped"]
    /\ UNCHANGED <<tasks, lessons, clock, should_stop, cur, mem, sessionOK,
                   hres, exc, hexc, batch, search>>

\* worker_loop: get_pending_task returned None, time.sleep(5)
WorkerIdle(w) ==
    /\ pc[w] = "top"
    /\ ~should_stop
    /\ GetPendingTask = {}
    /\ UNCHANGED vars

\* worker_loop: get_pending_task returned a task
WorkerClaim(w) ==
    /\ pc[w] = "top"
    /\ ~should_stop
    /\ \E i \in GetPendingTask :
          /\ cur' = [cur EXCEPT ![w] = i]
          /\ mem' = [mem EXCEPT ![w] = tasks[i]]
    /\ pc' = [pc EXCEPT ![w] = "start"]
    /\ UNCHANGED <<tasks, lessons, clock, should_stop, sessionOK, hres, exc,
                   hexc, batch, search>>

\* process_task: update_task_status(session, task, "running")
StartRunning(w) ==
    /\ pc[w] = "start"
    /\ \/ /\ CommitOK(w, UpdateTaskStatus(mem[w], "running", clock, NoKw))
          /\ mem' = [mem EXCEPT ![w] = tasks'[cur[w]]]
          /\ pc' = [pc EXCEPT ![w] = "dispatch"]
          /\ UNCHANGED <<cur, sessionOK, hres, exc, hexc>>
       \/ CommitRaises(w)
    /\ UNCHANGED <<lessons, clock, should_stop, batch, search>>

\* process_task: the else branch, an unknown task_type
DispatchUnknown(w) ==
    /\ pc[w] = "dispatch"
    /\ ~IsKnownType(mem[w].task_type)
    /\ \/ /\ CommitOK(w, UpdateTaskStatus(mem[w], "failed", clock,
                  [error |-> UnknownTypeError(mem[w].task_type)]))
          /\ EndIteration(w)
       \/ CommitRaises(w)
    /\ UNCHANGED <<lessons, clock, should_stop, batch, search>>

\* process_task -> process_*_task up to the call of the job handler
DispatchKnown(w) ==
    /\ pc[w] = "dispatch"
    /\ IsKnownType(mem[w].task_type)
    /\ IF mem[w].lesson_id = 0
       THEN /\ exc' = [exc EXCEPT ![w] = MissingLessonId]
            /\ pc' = [pc EXCEPT ![w] = "except"]
       ELSE /\ pc' = [pc EXCEPT ![w] = "handler"]
            /\ exc' = exc
    /\ UNCHANGED <<tasks, lessons, clock, should_stop, cur, mem, sessionOK,
                   hres, hexc, batch, search>>

\* the job handler ran to its commit: output written, returns True
HandlerSuccess(w) ==
    /\ pc[w] = "handler"
    /\ HasPrecursor(mem[w])
    /\ lessons' = [lessons EXCEPT ![mem[w].lesson_id] =
                                       HandlerWrite(@, mem[w].task_type, cur[w])]
    /\ hres' = [hres EXCEPT ![w] = TRUE]
    /\ pc' = [pc EXCEPT ![w] = "finish"]
    /\ UNCHANGED <<tasks, clock, should_stop, cur, mem, sessionOK, exc, hexc,
                   batch, search>>

\* the job handler found no lesson, no precursor transcript or (transcription)
\* no audio file: returns False
HandlerNotFound(w) ==
    /\ pc[w] = "handler"
    /\ ~HasPrecursor(mem[w]) \/ mem[w].task_type = "transcription"
    /\ hres' = [hres EXCEPT ![w] = FALSE]
    /\ pc' = [pc EXCEPT ![w] = "finish"]
    /\ UNCHANGED <<tasks, lessons, clock, should_stop, cur, mem, sessionOK,
                   exc, hexc, batch, search>>

\* something inside the job handler raised (the LLM / ASR call, the lesson
\* commit): except Exception -> session.rollback(), returns False
HandlerRaises(w) ==
    /\ pc[w] = "handler"
    /\ HasPrecursor(mem[w])
    /\ \E m \in {LlmError, CommitError} : hexc' = [hexc EXCEPT ![w] = m]
    /\ hres' = [hres EXCEPT ![w] = FALSE]
    /\ sessionOK' = [sessionOK EXCEPT ![w] = TRUE]
    /\ pc' = [pc EXCEPT ![w] = "finish"]
    /\ UNCHANGED <<tasks, lessons, clock, should_stop, cur, mem, exc, batch, search>>

\* process_*_task: update_task_status to completed / failed after the handler
Finish(w) ==
    /\ pc[w] = "finish"
    /\ \/ /\ CommitOK(w, IF hres[w]
                THEN UpdateTaskStatus(mem[w], "completed", clock,
                         [result |-> SuccessResult(mem[w])])
                ELSE UpdateTaskStatus(mem[w], "failed", clock,
                         [error |-> FailedError(mem[w].task_type)]))
          /\ EndIteration(w)
       \/ CommitRaises(w)
    /\ UNCHANGED <<lessons, clock, should_stop, batch, search>>

\* process_task: except Exception -> update_task_status(failed, error=str(e));
\* when that raises too, worker_loop's except logs it and sleeps
ExceptHandler(w) ==
    /\ pc[w] = "except"
    /\ \/ CommitOK(w, UpdateTaskStatus(mem[w], "failed", clock,
                         [error |-> exc[w]]))
       \/ UNCHANGED tasks
    /\ EndIteration(w)
    /\ UNCHANGED <<lessons, clock, should_stop, batch, search>>

Worker(w) ==
    \/ WorkerStop(w)
    \/ WorkerIdle(w)
    \/ WorkerClaim(w)
    \/ StartRunning(w)
    \/ DispatchUnknown(w)
    \/ DispatchKnown(w)
    \/ HandlerSuccess(w)
    \/ HandlerNotFound(w)
    \/ HandlerRaises(w)
    \/ Finish(w)
    \/ ExceptHandler(w)

\* one worker process, the API creating tasks, the clock and the signal
Next ==
    \/ \E inp \in TaskInputs : CreateTask(inp)
    \/ Tick
    \/ SignalHandler
    \/ Worker(1)

Spec == Init /\ [][Next]_vars

\* one worker whose stop flag is never set: the loop never leaves `while not
\* should_stop`, every call it makes returns (weak fairness of its steps),
\* and a commit that can succeed infinitely often does succeed (strong
\* fairness of the steps that change the store)
WorkerStep(w) ==
    \/ WorkerClaim(w)
    \/ StartRunning(w)
    \/ DispatchUnknown(w)
    \/ DispatchKnown(w)
    \/ HandlerSuccess(w)
    \/ HandlerNotFound(w)
    \/ HandlerRaises(w)
    \/ Finish(w)
    \/ ExceptHandler(w)

NextLive ==
    \/ \E inp \in TaskInputs : CreateTask(inp)
    \/ Tick
    \/ WorkerIdle(1)
    \/ WorkerStep(1)

SpecLive ==
    /\ Init
    /\ [][NextLive]_vars
    /\ WF_vars(WorkerStep(1))
    /\ SF_vars(WorkerStep(1) /\ tasks' # tasks)

\* two worker processes (two runs of worker.main) polling the same store
NextPair ==
    \/ \E inp \in TaskInputs : CreateTask(inp)
    \/ Tick
    \/ SignalHandler
    \/ Worker(1)
    \/ Worker(2)

SpecPair == Init /\ [][NextPair]_vars

\* the worker running the four stages on one lesson, at one clock value
NextStages ==
    \/ \E inp \in StageInputs : CreateTask(inp)
    \/ SignalHandler
    \/ Worker(1)

SpecStages == Init /\ [][NextStages]_vars

\* ------------------------------------------------------------ batch steps
otherVars == <<tasks, lessons, clock, should_stop, workerVars, search>>

InitBatch ==
    /\ tasks = <<>>
    /\ lessons = [l \in LessonIds |-> NoLesson]
    /\ clock = 0
    /\ should_stop = FALSE
    /\ pc = [w \in Workers |-> "top"]
    /\ cur = [w \in Workers |-> 0]
    /\ mem = [w \in Workers |-> NoTask]
    /\ sessionOK = [w \in Workers |-> TRUE]
    /\ hres = [w \in Workers |-> FALSE]
    /\ exc = [w \in Workers |-> NoMsg]
    /\ hexc = [w \in Workers |-> NoMsg]
    /\ search = SearchIdle
    /\ \E n \in 1..MaxSegs, g \in 1..MaxSegsPerGroup, k \in 1..MaxConcurrency :
          \E kind \in {"correction", "edition"} : batch = NewBatch(kind, n, g, k)

\* the grouping loop, asyncio.Semaphore(max_concurrency) and the list of
\* coroutines. range() with step 0 and Semaphore with a negative value raise
\* ValueError, which the handler's except clause turns into `return False`
BatchStart ==
    /\ batch.phase = "start"
    /\ batch' =
         IF batch.segments_per_group = 0 \/ batch.max_concurrency < 0
         THEN [batch EXCEPT !.phase = "failed"]
         ELSE LET groups == SegmentGroups(batch.segments,
                                          batch.segments_per_group)
              IN [batch EXCEPT
                    !.phase = "run",
                    !.groups = groups,
                    !.st = [j \in 1..Len(groups) |-> "new"],
                    !.results = [j \in 1..Len(groups) |-> <<>>],
                    !.attempts = [j \in 1..Len(groups) |-> 0],
                    !.raised = [j \in 1..Len(groups) |-> 0],
                    !.value = batch.max_concurrency]
    /\ UNCHANGED otherVars

\* a group's coroutine starts (gather starts them in list order) and reaches
\* `async with semaphore`: it takes a permit or queues up
Enter(j) ==
    /\ batch.phase = "run"
    /\ batch.st[j] = "new"
    /\ \A i \in 1..(j - 1) : batch.st[i] # "new"
    /\ batch' = IF CanAcquire(batch.value)
                THEN [batch EXCEPT !.value = @ - 1, !.st[j] = "inflight"]
                ELSE [batch EXCEPT !.waiters = Append(@, j), !.st[j] = "waiting"]
    /\ UNCHANGED otherVars

\* Semaphore wakes its first waiter, which takes the permit
Wake ==
    /\ batch.phase = "run"
    /\ batch.waiters # <<>>
    /\ CanAcquire(batch.value)
    /\ batch' = [batch EXCEPT !.value = @ - 1,
                              !.waiters = Tail(@),
                              !.st[Head(batch.waiters)] = "inflight"]
    /\ UNCHANGED otherVars

\* the group's call returned `result`: leave `async with` (release)
Leave(j, result) ==
    [batch EXCEPT !.value = @ + 1,
                  !.st[j] = "done",
                  !.results[j] = result,
                  !.order = Append(@, j)]

\* llm_with_structure.ainvoke answered: a response (correction; `last`
\* remembers the latest one and its group) or a number of parts (edition)
LLMReturns(j) ==
    /\ batch.phase = "run"
    /\ batch.st[j] = "inflight"
    /\ IF batch.kind = "correction"
       THEN \E response \in Responses(batch.groups[j]) :
               batch' = [Leave(j, CorrectSegmentGroup(batch.groups[j], response))
                           EXCEPT !.attempts[j] = @ + 1,
                                  !.last = [group |-> j, response |-> response]]
       ELSE \E np \in 0..MaxParts :
               batch' = [Leave(j, EditedParts(j, batch.groups[j], np))
                           EXCEPT !.attempts[j] = @ + 1]
    /\ UNCHANGED otherVars

\* llm_with_structure.ainvoke raised. correct_segment_group_with_retry would
\* sleep and call again (attempt < max_retries - 1) or re-raise (last
\* attempt) if the exception reached it; correct_segment_group returns the
\* original texts instead
LLMRaises(j) ==
    /\ batch.phase = "run"
    /\ batch.st[j] = "inflight"
    /\ LET attempt == batch.attempts[j]
           called == [batch EXCEPT !.attempts[j] = @ + 1, !.raised[j] = @ + 1]
       IN batch' =
            IF GroupCallPropagates
            THEN IF attempt < MAX_RETRIES - 1
                 THEN called
                 ELSE [called EXCEPT !.value = @ + 1, !.phase = "failed"]
            ELSE [called EXCEPT !.value = @ + 1,
                                !.st[j] = "done",
                                !.results[j] =
                                    IF batch.kind = "correction"
                                    THEN OriginalTexts(batch.groups[j])
                                    ELSE FallbackPart(batch.groups[j]),
                                !.order = Append(@, j)]
    /\ UNCHANGED otherVars

\* gather returned (results in list order): flatten, sort, reassemble, store
BatchFinish ==
    /\ batch.phase = "run"
    /\ \A j \in GroupIds : batch.st[j] = "done"
    /\ LET results == Gather(batch.results, batch.order) IN
       batch' = IF batch.kind = "correction"
                THEN [batch EXCEPT
                        !.phase = "done",
                        !.corrected_transcript =
                            Reassemble(batch.segments,
                                       SortByIndex(Flatten(results)))]
                ELSE [batch EXCEPT
                        !.phase = "done",
                        !.edited_transcript = Flatten(results)]
    /\ UNCHANGED otherVars

NextBatch ==
    \/ BatchStart
    \/ \E j \in GroupIds : Enter(j)
    \/ Wake
    \/ \E j \in GroupIds : LLMReturns(j)
    \/ \E j \in GroupIds : LLMRaises(j)
    \/ BatchFinish

SpecBatch == InitBatch /\ [][NextBatch]_vars

\* the same run with the parameters a Task may carry: Task.parameters is an
\* unvalidated dict, so segments_per_group and max_concurrency are any
\* integers
InitParams ==
    /\ tasks = <<>>
    /\ lessons = [l \in LessonIds |-> NoLesson]
    /\ clock = 0
    /\ should_stop = FALSE
    /\ pc = [w \in Workers |-> "top"]
    /\ cur = [w \in Workers |-> 0]
    /\ mem = [w \in Workers |-> NoTask]
    /\ sessionOK = [w \in Workers |-> TRUE]
    /\ hres = [w \in Workers |-> FALSE]
    /\ exc = [w \in Workers |-> NoMsg]
    /\ hexc = [w \in Workers |-> NoMsg]
    /\ search = SearchIdle
    /\ \E n \in 1..MaxSegs, g \in (-1)..MaxSegsPerGroup,
          k \in (-1)..MaxConcurrency :
          \E kind \in {"correction", "edition"} : batch = NewBatch(kind, n, g, k)

SpecParams == InitParams /\ [][NextBatch]_vars

\* ------------------------------------------------------------ summary
\* generate_summary_async on one lesson, with the retry loop of
\* generate_summary_with_retry. The run is kept in `batch`.

\* a retry loop that goes on after the last attempt
CanRetryM(attempt) == attempt < MAX_RETRIES
\* `attempt < max_retries - 1`: another attempt follows
CanRetry(attempt) == attempt < MAX_RETRIES - 1

\* the delay before jitter: min(INITIAL_RETRY_DELAY * 2**attempt,
\* MAX_RETRY_DELAY) for a rate-limit error, INITIAL_RETRY_DELAY otherwise
BaseDelay(attempt, is_rate_limit) ==
    IF is_rate_limit
    THEN Min(INITIAL_RETRY_DELAY * (2 ^ attempt), MAX_RETRY_DELAY)
    ELSE INITIAL_RETRY_DELAY

\* an exception message is the sequence of its words; str.lower() word by
\* word
Lower(word) ==
    CASE word = "Rate" -> "rate"
      [] word = "Limit" -> "limit"
      [] word = "Too" -> "too"
      [] word = "Many" -> "many"
      [] word = "Requests" -> "requests"
      [] word = "QUOTA" -> "quota"
      [] word = "Error" -> "error"
      [] OTHER -> word

LowerMessage(msg) == [i \in 1..Len(msg) |-> Lower(msg[i])]

\* `pattern in message`
Contains(msg, pattern) ==
    \E i \in 1..(Len(msg) - Len(pattern) + 1) :
        SubSeq(msg, i, i + Len(pattern) - 1) = pattern

\* the messages the LLM client may raise with
ErrorMessages ==
    {<<"Error", "code:", "429">>,
     <<"Rate", "Limit", "exceeded">>,
     <<"Too", "Many", "Requests">>,
     <<"QUOTA", "exceeded">>,
     <<"rate_limit", "exceeded">>,
     <<"connection", "reset">>,
     <<"limit", "rate", "unknown">>}

\* a classification that does not lower-case the message
IsRateLimitM(msg) ==
    \/ Contains(msg, <<"rate", "limit">>)
    \/ Contains(msg, <<"rate_limit">>)
    \/ Contains(msg, <<"429">>)
    \/ Contains(msg, <<"too", "many", "requests">>)
    \/ Contains(msg, <<"quota">>)

\* is_rate_limit: error_message = str(e).lower() contains one of the five
IsRateLimit(msg) ==
    LET error_message == LowerMessage(msg) IN
    \/ Contains(error_message, <<"rate", "limit">>)
    \/ Contains(error_message, <<"rate_limit">>)
    \/ Contains(error_message, <<"429">>)
    \/ Contains(error_message, <<"too", "many", "requests">>)
    \/ Contains(error_message, <<"quota">>)

\* time.time() % 1, in quarters of a second
TimeFractions == 0..3

\* the argument of asyncio.sleep in milliseconds: for a rate-limit error
\* delay + jitter * (2 * (time.time() % 1) - 1) with jitter = delay * 0.1,
\* otherwise INITIAL_RETRY_DELAY
ActualDelay(attempt, is_rate_limit, fraction) ==
    IF is_rate_limit
    THEN LET delay == 1000 * BaseDelay(attempt, TRUE)
             jitter == delay \div 10
         IN delay + (jitter * (2 * fraction - 4)) \div 4
    ELSE 1000 * INITIAL_RETRY_DELAY

\* a transcript column as the handlers see it: "none" (NULL), "empty" (the
\* list []), "blank" (segments whose texts are all blank) or "text"
TranscriptValues == {"none", "empty", "blank", "text"}

\* `if transcript`: a list that is not None and not empty
Truthy(transcript) == transcript \in {"blank", "text"}

\* transcript_text.strip() of the joined segment texts is not empty
HasText(transcript) == transcript = "text"

\* a choice that takes any corrected transcript that is not None
SummarySourceM(lesson, use_corrected) ==
    IF use_corrected /\ lesson.corrected_transcript # "none"
    THEN <<"corrected">>
    ELSE IF Truthy(lesson.transcript) THEN <<"raw">>
    ELSE NoMsg

\* the transcript the summary reads (NoMsg: none available)
SummarySource(lesson, use_corrected) ==
    IF use_corrected /\ Truthy(lesson.corrected_transcript) THEN <<"corrected">>
    ELSE IF Truthy(lesson.transcript) THEN <<"raw">>
    ELSE NoMsg

\* source_transcript = lesson.corrected_transcript or lesson.transcript
EditionSource(lesson) ==
    IF Truthy(lesson.corrected_transcript) THEN <<"corrected">>
    ELSE IF Truthy(lesson.transcript) THEN <<"raw">>
    ELSE NoMsg

\* the Lesson rows a summary may find: stage outputs present or not, a
\* summary of an earlier run present or not
SummaryLessons ==
    [transcript : {"none", "text"}, corrected_transcript : {"none", "text"},
     summary : {NoMsg, <<"earlier summary">>},
     summary_metadata : {NoMsg}]

\* the Lesson rows with every value of the two transcript columns
LoadLessons ==
    [transcript : TranscriptValues, corrected_transcript : TranscriptValues,
     summary : {NoMsg, <<"earlier summary">>},
     summary_metadata : {NoMsg}]

NewSummary(lesson, use_corrected) ==
    [phase |-> "load", kind |-> "summary",
     use_corrected |-> use_corrected,
     before |-> lesson,
     lesson |-> lesson,
     source |-> NoMsg,
     attempt |-> 0,
     calls |-> 0,
     sleeps |-> <<>>,
     last_error |-> NoMsg,
     returned |-> None,
     summary |-> NoMsg]

InitSummary ==
    /\ tasks = <<>>
    /\ lessons = [l \in LessonIds |-> NoLesson]
    /\ clock = 0
    /\ should_stop = FALSE
    /\ pc = [w \in Workers |-> "top"]
    /\ cur = [w \in Workers |-> 0]
    /\ mem = [w \in Workers |-> NoTask]
    /\ sessionOK = [w \in Workers |-> TRUE]
    /\ hres = [w \in Workers |-> FALSE]
    /\ exc = [w \in Workers |-> NoMsg]
    /\ hexc = [w \in Workers |-> NoMsg]
    /\ search = SearchIdle
    /\ \E lesson \in SummaryLessons, use_corrected \in BOOLEAN :
          batch = NewSummary(lesson, use_corrected)

\* choose the transcript, or return False when the lesson has none or the
\* chosen one has no text
SummaryLoad ==
    /\ batch.phase = "load"
    /\ batch.kind = "summary"
    /\ LET source == SummarySource(batch.lesson, batch.use_corrected)
           transcript == IF source = <<"corrected">>
                         THEN batch.lesson.corrected_transcript
                         ELSE batch.lesson.transcript
       IN batch' = IF source = NoMsg
                   THEN [batch EXCEPT !.phase = "failed"]
                   ELSE IF ~HasText(transcript)
                   THEN [batch EXCEPT !.phase = "failed", !.source = source]
                   ELSE [batch EXCEPT !.phase = "call", !.source = source]
    /\ UNCHANGED otherVars

\* edit_transcript_async up to the grouping: choose the transcript, or
\* return False when the lesson has none
EditionLoad ==
    /\ batch.phase = "load"
    /\ batch.kind = "edition"
    /\ LET source == EditionSource(batch.lesson) IN
       batch' = IF source = NoMsg
                THEN [batch EXCEPT !.phase = "failed"]
                ELSE [batch EXCEPT !.phase = "loaded", !.source = source]
    /\ UNCHANGED otherVars

\* llm.ainvoke returned: the loop returns the text of this attempt
SummaryReturns ==
    /\ batch.phase = "call"
    /\ batch' = [batch EXCEPT
                   !.calls = @ + 1,
                   !.returned = batch.attempt,
                   !.summary = <<"summary", batch.attempt>> \o batch.source,
                   !.phase = "commit"]
    /\ UNCHANGED otherVars

\* llm.ainvoke raised: sleep and go to the next attempt, or re-raise on the
\* last one (generate_summary_async then rolls back and returns False)
SummaryRaises(msg, fraction) ==
    /\ batch.phase = "call"
    /\ batch' = IF CanRetry(batch.attempt)
                THEN [batch EXCEPT
                        !.calls = @ + 1,
                        !.last_error = msg,
                        !.sleeps = Append(@, ActualDelay(batch.attempt,
                                                 IsRateLimit(msg), fraction)),
                        !.attempt = @ + 1]
                ELSE [batch EXCEPT !.calls = @ + 1, !.last_error = msg,
                                   !.phase = "failed"]
    /\ UNCHANGED otherVars

\* lesson.summary, set_summary_metadata, session.commit(): return True
SummaryCommit ==
    /\ batch.phase = "commit"
    /\ batch' = [batch EXCEPT
                   !.lesson.summary = batch.summary,
                   !.lesson.summary_metadata = <<"metadata">>,
                   !.phase = "done"]
    /\ UNCHANGED otherVars

\* session.commit() raised: except, session.rollback(), return False
SummaryCommitRaises ==
    /\ batch.phase = "commit"
    /\ batch' = [batch EXCEPT !.phase = "failed"]
    /\ UNCHANGED otherVars

NextSummary ==
    \/ SummaryLoad
    \/ SummaryReturns
    \/ \E msg \in ErrorMessages, fraction \in TimeFractions :
          SummaryRaises(msg, fraction)
    \/ SummaryCommit
    \/ SummaryCommitRaises

SpecSummary == InitSummary /\ [][NextSummary]_vars

\* the loading step of edition and summary on every Lesson row
InitLoad ==
    /\ tasks = <<>>
    /\ lessons = [l \in LessonIds |-> NoLesson]
    /\ clock = 0
    /\ should_stop = FALSE
    /\ pc = [w \in Workers |-> "top"]
    /\ cur = [w \in Workers |-> 0]
    /\ mem = [w \in Workers |-> NoTask]
    /\ sessionOK = [w \in Workers |-> TRUE]
    /\ hres = [w \in Workers |-> FALSE]
    /\ exc = [w \in Workers |-> NoMsg]
    /\ hexc = [w \in Workers |-> NoMsg]
    /\ search = SearchIdle
    /\ \E lesson \in LoadLessons, use_corrected \in BOOLEAN :
          \E kind \in {"edition", "summary"} :
             batch = [NewSummary(lesson, use_corrected) EXCEPT !.kind = kind]

NextLoad == EditionLoad \/ SummaryLoad

SpecLoad == InitLoad /\ [][NextLoad]_vars

\* ------------------------------------------------------------ crud.update_task
\* Python None for the status argument
NoStatus == "None"

\* the argument lists PUT-style callers of crud.update_task may pass
UpdateArgs ==
    {[status |-> st, start_date |-> None, end_date |-> None, duration |-> None,
      result |-> NoMsg, error |-> NoMsg] :
        st \in {NoStatus, "pending", "failed"}}
    \cup
    {[status |-> NoStatus, start_date |-> None, end_date |-> None,
      duration |-> None, result |-> NoMsg, error |-> <<"cancelled">>]}

\* crud.update_task on a found row: every argument that is not None is stored
UpdateTaskRow(t, a) ==
    [t EXCEPT
       !.status = IF a.status # NoStatus THEN a.status ELSE @,
       !.start_date = IF a.start_date # None THEN a.start_date ELSE @,
       !.end_date = IF a.end_date # None THEN a.end_date ELSE @,
       !.duration = IF a.duration # None THEN a.duration ELSE @,
       !.result = IF a.result # NoMsg THEN a.result ELSE @,
       !.error = IF a.error # NoMsg THEN a.error ELSE @]

\* crud.update_task(session, task_id, ...): None for an unknown id
UpdateTask(task_id, a) ==
    /\ tasks' = IF task_id \in TaskIds
                THEN [tasks EXCEPT ![task_id] = UpdateTaskRow(@, a)]
                ELSE tasks
    /\ UNCHANGED <<lessons, clock, should_stop, workerVars, batch, search>>

\* the operations on the task store: create_task, the worker's
\* update_task_status and update_task
NextCrud ==
    \/ \E inp \in TaskInputs : CreateTask(inp)
    \/ SignalHandler
    \/ Worker(1)
    \/ \E task_id \in 1..MaxTasks, a \in UpdateArgs : UpdateTask(task_id, a)

SpecCrud == Init /\ [][NextCrud]_vars

\* ------------------------------------------------------------ search
\* search_utils.py.  A text is the sequence of its characters; a score is the
\* exact fraction num / den, compared by cross-multiplication.
MaxSearchSegs == 2

MaxMatches == 2

Score(num, den) == [num |-> num, den |-> den]

ScoreGE(x, y) == x.num * y.den >= y.num * x.den

ScoreMax(x, y) == IF ScoreGE(x, y) THEN x ELSE y

IsSpace(c) == c = " "

\* the characters \w matches
IsWordChar(c) == c \in {"a", "b", "A", "B"}

LowerChar(c) ==
    CASE c = "A" -> "a"
      [] c = "B" -> "b"
      [] OTHER -> c

\* str.lower()
LowerText(text) == [i \in 1..Len(text) |-> LowerChar(text[i])]

\* str.strip()
Strip(text) ==
    LET kept == {i \in 1..Len(text) : ~IsSpace(text[i])} IN
    IF kept = {} THEN <<>>
    ELSE SubSeq(text, CHOOSE i \in kept : \A j \in kept : i <= j,
                      CHOOSE i \in kept : \A j \in kept : i >= j)

\* re.findall(r"\w+", ...): the maximal runs of word characters, in order
RECURSIVE FindAll(_, _)
FindAll(text, run) ==
    LET found == IF run = <<>> THEN <<>> ELSE <<run>> IN
    IF text = <<>> THEN found
    ELSE IF IsWordChar(Head(text))
         THEN FindAll(Tail(text), Append(run, Head(text)))
         ELSE found \o FindAll(Tail(text), <<>>)

Tokens(text) == FindAll(LowerText(text), <<>>)

\* " ".join(tokens)
RECURSIVE Join(_)
Join(tokens) ==
    IF tokens = <<>> THEN <<>>
    ELSE IF Len(tokens) = 1 THEN tokens[1]
    ELSE tokens[1] \o <<" ">> \o Join(Tail(tokens))

\* difflib.SequenceMatcher.find_longest_match without junk: the longest
\* common block, the earliest in a, then the earliest in b; <<i, j, k>>
LongestMatch(a, b) ==
    LET blocks == {c \in (1..Len(a)) \X (1..Len(b)) \X (1..Min(Len(a), Len(b))) :
                      /\ c[1] + c[3] - 1 <= Len(a)
                      /\ c[2] + c[3] - 1 <= Len(b)
                      /\ SubSeq(a, c[1], c[1] + c[3] - 1)
                           = SubSeq(b, c[2], c[2] + c[3] - 1)}
    IN IF blocks = {} THEN <<1, 1, 0>>
       ELSE CHOOSE c \in blocks : \A d \in blocks :
                \/ c[3] > d[3]
                \/ c[3] = d[3] /\ c[1] < d[1]
                \/ c[3] = d[3] /\ c[1] = d[1] /\ c[2] <= d[2]

\* the sum of the sizes of get_matching_blocks(): the longest block, then
\* the same to its left and to its right
RECURSIVE MatchingChars(_, _)
MatchingChars(a, b) ==
    IF a = <<>> \/ b = <<>> THEN 0
    ELSE LET m == LongestMatch(a, b)
             i == m[1]
             j == m[2]
             k == m[3]
         IN IF k = 0 THEN 0
            ELSE k + MatchingChars(SubSeq(a, 1, i - 1), SubSeq(b, 1, j - 1))
                   + MatchingChars(SubSeq(a, i + k, Len(a)),
                                   SubSeq(b, j + k, Len(b)))

\* _ratio: 2 * matches / (len(a) + len(b)) * 100
Ratio(a, b) ==
    IF a = <<>> \/ b = <<>> THEN Score(0, 1)
    ELSE Score(200 * MatchingChars(a, b), Len(a) + Len(b))

WindowSizes(q_len) ==
    SelectSeq([d \in 1..6 |-> q_len + <<0, 1, -1, 2, -2, 3>>[d]],
              LAMBDA window_size : window_size >= 1)

\* the windows of one size, left to right (none when the size exceeds the
\* number of tokens)
WindowsOfSize(s_tokens, window_size) ==
    IF window_size > Len(s_tokens) THEN <<>>
    ELSE [i \in 1..(Len(s_tokens) - window_size + 1) |->
             Join(SubSeq(s_tokens, i, i + window_size - 1))]

\* the windows in the order the two nested loops visit them
RECURSIVE AllWindows(_, _)
AllWindows(s_tokens, window_sizes) ==
    IF window_sizes = <<>> THEN <<>>
    ELSE WindowsOfSize(s_tokens, Head(window_sizes))
            \o AllWindows(s_tokens, Tail(window_sizes))

\* the loop body: best = max(best, ratio), early return at >= 95
RECURSIVE ScanWindows(_, _, _)
ScanWindows(q, windows, best) ==
    IF windows = <<>> THEN [best |-> best, early |-> FALSE]
    ELSE LET better == ScoreMax(best, Ratio(q, Head(windows))) IN
         IF ScoreGE(better, Score(95, 1))
         THEN [best |-> better, early |-> TRUE]
         ELSE ScanWindows(q, Tail(windows), better)

\* a substring test that does not lower-case the two sides
ExactMatchM(query_raw, seg_raw) == Contains(seg_raw, query_raw)

\* query_raw.lower() in seg_raw.lower()
ExactMatch(query_raw, seg_raw) ==
    Contains(LowerText(seg_raw), LowerText(query_raw))

\* fuzzy_segment_score: (score, exact)
FuzzySegmentScore(query, segment_text) ==
    LET query_raw == Strip(query)
        seg_raw == segment_text
        q_tokens == Tokens(query_raw)
        s_tokens == Tokens(seg_raw)
        q == Join(q_tokens)
        scan == ScanWindows(q, AllWindows(s_tokens, WindowSizes(Len(q_tokens))),
                            Score(0, 1))
    IN IF query_raw = <<>> THEN [score |-> Score(0, 1), exact |-> FALSE]
       ELSE IF Strip(seg_raw) = <<>> THEN [score |-> Score(0, 1), exact |-> FALSE]
       ELSE IF ExactMatch(query_raw, seg_raw)
            THEN [score |-> Score(100, 1), exact |-> TRUE]
       ELSE IF q_tokens = <<>> \/ s_tokens = <<>>
            THEN [score |-> Score(0, 1), exact |-> FALSE]
       ELSE IF scan.early THEN [score |-> scan.best, exact |-> FALSE]
       ELSE [score |-> ScoreMax(scan.best, Ratio(q, Join(s_tokens))),
             exact |-> FALSE]

\* a key that ignores start
MatchBeforeM(x, y) == ~ScoreGE(y.score, x.score)

\* the sort key (-score, start): x sorts strictly before y
MatchBefore(x, y) ==
    \/ ~ScoreGE(y.score, x.score)
    \/ ScoreGE(x.score, y.score) /\ x.start < y.start

\* list.sort is stable: a later element goes after the elements it does not
\* sort strictly before
RECURSIVE InsertMatch(_, _)
InsertMatch(sorted, x) ==
    IF sorted = <<>> THEN <<x>>
    ELSE IF MatchBefore(x, sorted[Len(sorted)])
         THEN Append(InsertMatch(SubSeq(sorted, 1, Len(sorted) - 1), x),
                     sorted[Len(sorted)])
         ELSE Append(sorted, x)

RECURSIVE SortMatches(_)
SortMatches(matches) ==
    IF matches = <<>> THEN <<>>
    ELSE InsertMatch(SortMatches(SubSeq(matches, 1, Len(matches) - 1)),
                     matches[Len(matches)])

\* score >= threshold
PassesThreshold(score, threshold) == ScoreGE(score, Score(threshold, 1))

\* matches[:max_matches]
Slice(matches, max_matches) ==
    IF max_matches >= 0 THEN SubSeq(matches, 1, Min(max_matches, Len(matches)))
    ELSE SubSeq(matches, 1, Len(matches) + max_matches)

\* the texts a stored segment may carry: "", " ", "Ab", "a b", "ba", "!"
SegmentTexts ==
    {<<>>, <<" ">>, <<"A", "b">>, <<"a", " ", "b">>, <<"b", "a">>, <<"!">>}

\* the entries of a stored transcript: dicts, and a value that is not one
SearchSegments ==
    [dict : {TRUE}, start : {0, 1}, text : SegmentTexts]
        \union {[dict |-> FALSE, start |-> 0, text |-> <<>>]}

\* the queries: "", " ", " aB", "a!b", "b"
Queries ==
    {<<>>, <<" ">>, <<" ", "a", "B">>, <<"a", "!", "b">>, <<"b">>}

Thresholds == {0, 72, 100}

NewSearch(segments, query, threshold, max_matches) ==
    [phase |-> "start",
     segments |-> segments,
     query |-> query,
     q |-> <<>>,
     threshold |-> threshold,
     max_matches |-> max_matches,
     i |-> 0,
     matches |-> <<>>,
     result |-> <<>>]

InitSearch ==
    /\ tasks = <<>>
    /\ lessons = [l \in LessonIds |-> NoLesson]
    /\ clock = 0
    /\ should_stop = FALSE
    /\ pc = [w \in Workers |-> "top"]
    /\ cur = [w \in Workers |-> 0]
    /\ mem = [w \in Workers |-> NoTask]
    /\ sessionOK = [w \in Workers |-> TRUE]
    /\ hres = [w \in Workers |-> FALSE]
    /\ exc = [w \in Workers |-> NoMsg]
    /\ hexc = [w \in Workers |-> NoMsg]
    /\ batch = BatchIdle
    /\ \E n \in 0..MaxSearchSegs, query \in Queries, threshold \in Thresholds,
          max_matches \in 0..MaxMatches :
          \E segments \in [1..n -> SearchSegments] :
             search = NewSearch(segments, query, threshold, max_matches)

searchFrame == <<tasks, lessons, clock, should_stop, workerVars, batch>>

\* the two early returns
SearchStart ==
    /\ search.phase = "start"
    /\ LET q == Strip(search.query) IN
       IF search.segments = <<>> \/ q = <<>>
       THEN search' = [search EXCEPT !.phase = "done", !.result = <<>>]
       ELSE search' = [search EXCEPT !.phase = "scan", !.q = q]
    /\ UNCHANGED searchFrame

\* one iteration of `for seg in segments`
SearchScan ==
    /\ search.phase = "scan"
    /\ search.i < Len(search.segments)
    /\ LET seg == search.segments[search.i + 1]
           scored == FuzzySegmentScore(search.q, seg.text)
       IN IF seg.dict /\ PassesThreshold(scored.score, search.threshold)
          THEN search' = [search EXCEPT
                  !.i = @ + 1,
                  !.matches = Append(@, [start |-> seg.start,
                                         text |-> seg.text,
                                         score |-> scored.score,
                                         exact |-> scored.exact])]
          ELSE search' = [search EXCEPT !.i = @ + 1]
    /\ UNCHANGED searchFrame

\* matches.sort(key=lambda m: (-m["score"], m["start"]))
SearchSort ==
    /\ search.phase = "scan"
    /\ search.i = Len(search.segments)
    /\ search' = [search EXCEPT !.phase = "sorted",
                                !.matches = SortMatches(@)]
    /\ UNCHANGED searchFrame

\* return matches[:max_matches]
SearchReturn ==
    /\ search.phase = "sorted"
    /\ search' = [search EXCEPT
          !.phase = "done",
          !.result = Slice(search.matches, search.max_matches)]
    /\ UNCHANGED searchFrame

NextSearch == SearchStart \/ SearchScan \/ SearchSort \/ SearchReturn

SpecSearch == InitSearch /\ [][NextSearch]_vars

\* ============================================================ claims
Running == {i \in TaskIds : tasks[i].status = "running"}

\* C1: with one worker the persisted status of every task changes only
\* pending -> running, running -> completed or running -> failed, whatever
\* the handler does and whichever commits raise.
C1_StatusOnlyForward ==
    [][\A i \in TaskIds :
         tasks'[i].status # tasks[i].status =>
             <<tasks[i].status, tasks'[i].status>> \in
                 {<<"pending", "running">>, <<"running", "completed">>,
                  <<"running", "failed">>}]_vars

\* one task failed through process_task's except clause, and on the next
\* task the store has just raised
C1_Witness ==
    /\ \E i \in TaskIds :
          tasks[i].status = "failed" /\ tasks[i].error = MissingLessonId
    /\ pc[1] = "except" /\ ~sessionOK[1]

\* C2: start_date is written once, by the step that makes the task running;
\* end_date is written once, by the step that makes it completed or failed;
\* a row with an end_date has duration = end_date - start_date, and from then
\* on none of the three columns changes.
C2_DatesStampedOnce ==
    [][\A i \in TaskIds :
         /\ tasks'[i].start_date # tasks[i].start_date =>
                /\ tasks[i].start_date = None
                /\ tasks[i].status = "pending" /\ tasks'[i].status = "running"
         /\ tasks'[i].end_date # tasks[i].end_date =>
                /\ tasks[i].end_date = None
                /\ tasks[i].status \notin Terminal
                /\ tasks'[i].status \in Terminal
         /\ tasks'[i].end_date # None =>
                /\ tasks'[i].start_date # None
                /\ tasks'[i].duration = tasks'[i].end_date - tasks'[i].start_date
         /\ tasks[i].end_date # None =>
                /\ tasks'[i].start_date = tasks[i].start_date
                /\ tasks'[i].end_date = tasks[i].end_date
                /\ tasks'[i].duration = tasks[i].duration]_vars

\* a finished task that was created, started and ended at different times,
\* while the worker is already busy with a later task
C2_Witness ==
    \E i \in TaskIds :
        /\ tasks[i].end_date # None
        /\ tasks[i].created_at < tasks[i].start_date
        /\ tasks[i].duration = 0
        /\ cur[1] \notin {0, i}

\* C3: over worker steps, crud.create_task and crud.update_task, a task that
\* is completed or failed never has status pending or running again.
C3_NeverResurrected ==
    [][\A i \in TaskIds :
         tasks[i].status \in Terminal => tasks'[i].status \in Terminal]_vars

\* C4: with one worker at most one task has status running.
C4_AtMostOneRunning == Cardinality(Running) <= 1

\* C5: the task the worker has just fetched is pending, no pending task has a
\* smaller created_at, and among those with the same created_at none has a
\* smaller id.
C5_OldestThenSmallestId ==
    pc[1] = "start" =>
        /\ tasks[cur[1]].status = "pending"
        /\ \A j \in PendingIds :
              \/ tasks[cur[1]].created_at < tasks[j].created_at
              \/ /\ tasks[cur[1]].created_at = tasks[j].created_at
                 /\ cur[1] <= j

C7_ErrorIsCause ==
    [][(pc[1] = "finish" /\ hexc[1] # NoMsg /\ pc'[1] = "top") =>
          /\ tasks'[cur[1]].status = "failed"
          /\ tasks'[cur[1]].error = hexc[1]]_vars

\* C8: when the loop has exited on the stop flag, no task is left running:
\* the task in progress when the flag was set reached completed or failed.
C8_NoRunningAfterStop ==
    pc[1] = "stopped" => Running = {}

\* C9: at every moment of a batch at most max_concurrency group calls are
\* in flight (entered the semaphore block and not yet left it).
C9_InFlightBound ==
    batch.phase = "run" => Cardinality(InFlight) <= batch.max_concurrency

\* max_concurrency >= 2 calls in flight while another group waits
C9_Witness ==
    /\ batch.phase = "run"
    /\ batch.max_concurrency >= 2
    /\ Cardinality(InFlight) = batch.max_concurrency
    /\ batch.waiters # <<>>

\* C10: the corrected transcript has one segment per input segment, and the
\* i-th one has the i-th input's start and end and a text derived from the
\* i-th input's text, in whichever order the groups completed.
C10_OutputInInputOrder ==
    CorrectionDone =>
        /\ Len(batch.corrected_transcript) = Len(batch.segments)
        /\ \A i \in 1..Len(batch.segments) :
              /\ batch.corrected_transcript[i].start = batch.segments[i].start
              /\ batch.corrected_transcript[i].end = batch.segments[i].end
              /\ batch.corrected_transcript[i].text.src = batch.segments[i].text.src

\* a finished batch whose last group completed first and was rewritten
C10_Witness ==
    /\ CorrectionDone
    /\ Len(batch.groups) >= 2
    /\ batch.order[1] = Len(batch.groups)
    /\ batch.corrected_transcript[Len(batch.segments)].text.corrected
    /\ ~batch.corrected_transcript[1].text.corrected

\* C11: n items with group size g >= 1 give ceil(n/g) groups; read one after
\* the other they are the items 0..n-1 in order, each once; every group has
\* g items except the last, which has between 1 and g.
C11_GroupsPartitionInput ==
    batch.phase \in {"run", "done"} =>
        LET n == Len(batch.segments)
            g == batch.segments_per_group
            all == Flatten(batch.groups)
        IN /\ Len(batch.groups) = (n + g - 1) \div g
           /\ \A j \in 1..Len(batch.groups) :
                 /\ Len(batch.groups[j]) \in 1..g
                 /\ (j < Len(batch.groups) => Len(batch.groups[j]) = g)
           /\ Len(all) = n
           /\ \A q \in 1..Len(all) :
                 all[q][1] = q - 1 /\ all[q][2] = batch.segments[q]

\* a batch whose last group is shorter than the others
C11_Witness ==
    /\ batch.phase = "run"
    /\ Len(batch.groups) = 2
    /\ Len(batch.groups[1]) = 2
    /\ Len(batch.groups[2]) = 1
    /\ \A j \in GroupIds : batch.st[j] = "done"

\* C12: no group's LLM call is attempted more than MAX_RETRIES (5) times, and
\* a finished group whose every attempt raised was attempted exactly 5 times.
C12_AttemptsAtMostFiveAndFiveOnFailure ==
    batch.phase # "off" =>
        \A j \in GroupIds :
            /\ batch.attempts[j] <= MAX_RETRIES
            /\ (batch.st[j] = "done" /\ batch.raised[j] = batch.attempts[j]) =>
                   batch.attempts[j] = MAX_RETRIES

\* C13: a group whose call failed does not fail the batch; in the stored
\* transcript the segments of that group are the input segments unchanged,
\* and the segments of every other group carry the text that group's own
\* call returned for them.
C13_DegradedGroupKeepsOriginals ==
    /\ batch.phase # "failed"
    /\ CorrectionDone =>
          \A j \in GroupIds : \A q \in 1..Len(batch.groups[j]) :
              LET idx == batch.groups[j][q][1]
                  out == batch.corrected_transcript[idx + 1]
              IN /\ idx + 1 <= Len(batch.corrected_transcript)
                 /\ out.start = batch.segments[idx + 1].start
                 /\ out.end = batch.segments[idx + 1].end
                 /\ out.text = batch.results[j][q][2]
                 /\ batch.raised[j] > 0 => out = batch.segments[idx + 1]

\* a finished batch with a failed group and another, fully rewritten group
C13_Witness ==
    /\ CorrectionDone
    /\ \E j, k \in GroupIds :
          /\ batch.raised[j] > 0
          /\ batch.raised[k] = 0
          /\ \A q \in 1..Len(batch.groups[k]) :
                batch.corrected_transcript[batch.groups[k][q][1] + 1].text.corrected

\* C14: the edited_transcript an edition batch stores is the per-group part
\* lists one after the other in group order, each list in the order the
\* group's call returned it, whichever order the groups completed in.
C14_PartsInGroupOrder ==
    EditionDone =>
        LET RECURSIVE Offset(_)
            Offset(j) == IF j = 1 THEN 0
                         ELSE Offset(j - 1) + Len(batch.results[j - 1])
        IN /\ Len(batch.edited_transcript) = Offset(Len(batch.groups) + 1)
           /\ \A j \in GroupIds : \A q \in 1..Len(batch.results[j]) :
                 batch.edited_transcript[Offset(j) + q] = batch.results[j][q]

\* an edition whose last group completed first, the first group returning
\* two parts
C14_Witness ==
    /\ EditionDone
    /\ Len(batch.groups) >= 2
    /\ batch.order[1] = Len(batch.groups)
    /\ Len(batch.results[1]) = 2
    /\ Len(batch.results[Len(batch.groups)]) >= 1

\* C15: in a finished edition a group whose call failed contributes exactly
\* one part: from the start of the group's first segment to the end of its
\* last, the group's original texts joined in order, no sources; every other
\* group contributes the parts its call returned.
C15_FailedGroupIsOneFallbackPart ==
    EditionDone =>
        LET g == batch.segments_per_group
            n == Len(batch.segments)
            RECURSIVE First(_)
            First(j) == IF j = 1 THEN 0
                        ELSE First(j - 1) + Len(batch.results[j - 1])
        IN \A j \in GroupIds :
              LET lo == (j - 1) * g + 1
                  hi == Min(j * g, n)
                  mine == SubSeq(batch.edited_transcript, First(j) + 1,
                                 First(j) + Len(batch.results[j]))
              IN IF batch.raised[j] > 0
                 THEN /\ Len(mine) = 1
                      /\ mine[1].start = batch.segments[lo].start
                      /\ mine[1].end = batch.segments[hi].end
                      /\ mine[1].text =
                             [q \in 1..(hi - lo + 1) |->
                                 batch.segments[lo + q - 1].text]
                      /\ mine[1].sources = <<>>
                 ELSE \A q \in 1..Len(mine) :
                         /\ mine[q].text = <<"edited", j, q>>
                         /\ mine[q].sources # <<>>

\* a finished edition with a failed first group of two segments and a later
\* group that returned two parts
C15_Witness ==
    /\ EditionDone
    /\ batch.raised[1] > 0
    /\ Len(batch.groups[1]) = 2
    /\ \E j \in GroupIds :
          /\ j > 1
          /\ batch.raised[j] = 0
          /\ Len(batch.results[j]) = 2

\* C16: a step changes a Lesson row only as the commit of a handler that
\* returns True, and then it sets the stage's output column and its metadata
\* column together (and duration, for transcription) and no other column; a
\* handler run that returns False leaves every Lesson row as it was.
C16_LessonAllOrNothing ==
    [][/\ (pc[1] = "handler" /\ pc'[1] = "finish" /\ ~hres'[1]) =>
              lessons' = lessons
       /\ \A l \in LessonIds :
             lessons'[l] # lessons[l] =>
                 /\ pc[1] = "handler" /\ hres'[1] /\ mem[1].lesson_id = l
                 /\ lessons'[l][OutputField(mem[1].task_type)] = cur[1]
                 /\ lessons'[l][MetadataField(mem[1].task_type)] = cur[1]
                 /\ \A f \in DOMAIN lessons[l] :
                       lessons'[l][f] # lessons[l][f] =>
                           \/ f = OutputField(mem[1].task_type)
                           \/ f = MetadataField(mem[1].task_type)
                           \/ (f = "duration" /\ mem[1].task_type = "transcription")]_vars

\* the lesson has been transcribed, and a later handler run on it has raised
\* and returned False
C16_Witness ==
    /\ lessons[1].transcript # 0 /\ lessons[1].transcript_metadata # 0
    /\ lessons[1].duration # 0
    /\ lessons[1].corrected_transcript = 0 /\ lessons[1].correction_metadata = 0
    /\ pc[1] = "finish" /\ ~hres[1] /\ hexc[1] # NoMsg

\* C17: when a commit raised while a task was being processed, the task is
\* failed once the worker is done with it: the step that ends the handling of
\* a commit error of update_task_status leaves the task failed, and so does
\* the step that ends a task whose handler's lesson commit raised; it is never
\* left running or completed.
C17_CommitErrorFailsTask ==
    [][/\ (pc[1] = "except" /\ exc[1] = CommitError /\ pc'[1] = "top") =>
              tasks'[cur[1]].status = "failed"
       /\ (pc[1] = "finish" /\ hexc[1] = CommitError /\ pc'[1] = "top") =>
              tasks'[cur[1]].status = "failed"]_vars

\* C19: every completed task has a result naming its lesson_id (and, for a
\* summary, use_corrected) and no error; every failed task has an error and
\* no result.
C19_ResultXorError ==
    \A i \in TaskIds :
        /\ tasks[i].status = "completed" =>
              /\ tasks[i].result # NoMsg
              /\ tasks[i].result[2] = tasks[i].lesson_id
              /\ (tasks[i].task_type = "summary" =>
                     tasks[i].result[3] = tasks[i].use_corrected)
              /\ tasks[i].error = NoMsg
        /\ tasks[i].status = "failed" =>
              /\ tasks[i].error # NoMsg
              /\ tasks[i].result = NoMsg

\* a completed transcription beside a summary that failed
C19_Witness ==
    \E i, j \in TaskIds :
        /\ tasks[i].status = "completed"
        /\ tasks[i].task_type = "transcription"
        /\ tasks[j].status = "failed"
        /\ tasks[j].task_type = "summary"
        /\ tasks[j].error = <<"Summary generation failed">>

\* the job's lesson does not exist or lacks the transcript the stage reads
LacksPrecursor(t) ==
    \/ t.lesson_id \notin LessonIds
    \/ /\ t.task_type = "correction"
       /\ lessons[t.lesson_id].transcript = 0
    \/ /\ t.task_type \in {"edition", "summary"}
       /\ lessons[t.lesson_id].corrected_transcript = 0
       /\ lessons[t.lesson_id].transcript = 0

C20_SummaryRetriesAtMostFive ==
    (batch.phase # "off" /\ batch.kind = "summary") =>
        /\ batch.calls <= 5
        /\ (batch.phase = "failed" /\ batch.source # NoMsg
                /\ batch.returned = None) =>
               (batch.calls = 5 /\ batch.lesson = batch.before)
        /\ batch.phase = "failed" => batch.lesson = batch.before
        /\ batch.returned # None =>
               /\ batch.calls = batch.returned + 1
               /\ batch.phase \in {"commit", "done", "failed"}
        /\ batch.phase = "done" =>
               /\ batch.returned # None
               /\ batch.lesson.summary =
                      <<"summary", batch.returned>> \o batch.source
               /\ batch.lesson.summary_metadata # NoMsg

\* a run that failed after five raising calls on a lesson that already had a
\* summary
C20_Witness ==
    /\ batch.phase = "failed"
    /\ batch.kind = "summary"
    /\ batch.calls = 5
    /\ Len(batch.sleeps) = 4
    /\ batch.before.summary # NoMsg

\* the wait (ms) the claim allows after failed attempt a with message msg,
\* when `class` is the set of messages counted as rate-limit errors
C21_DelayAllowed(a, msg, d, class) ==
    LET base == 1000 * (IF 2 ^ a < 60 THEN 2 ^ a ELSE 60) IN
    IF msg \in class
    THEN 10 * (d - base) <= base /\ 10 * (base - d) <= base
    ELSE d = 1000

\* a raising call: it is retried after an allowed wait when fewer than five
\* attempts were made, and ends the loop without a wait on the fifth
C21_RetryStep(class) ==
    (batch.phase = "call" /\ batch'.calls = batch.calls + 1
         /\ batch'.returned = None) =>
        IF batch.attempt < 4
        THEN /\ batch'.phase = "call"
             /\ batch'.attempt = batch.attempt + 1
             /\ Len(batch'.sleeps) = Len(batch.sleeps) + 1
             /\ C21_DelayAllowed(batch.attempt, batch'.last_error,
                                 batch'.sleeps[Len(batch'.sleeps)], class)
        ELSE /\ batch'.phase = "failed"
             /\ batch'.sleeps = batch.sleeps

\* C21 (as stated): after failed attempt a < 4 the wait is min(2^a, 60) s
\* within 10% when the message contains 'rate limit', '429', 'too many
\* requests' or 'quota' in any case, and exactly 1 s for every other message;
\* both classes are retried and nothing is slept after the fifth failure.
C21_BackoffFourPatterns ==
    [][C21_RetryStep({<<"Error", "code:", "429">>,
                      <<"Rate", "Limit", "exceeded">>,
                      <<"Too", "Many", "Requests">>,
                      <<"QUOTA", "exceeded">>})]_vars

\* C21 (amended): as above, with 'rate_limit' as a fifth pattern of the
\* rate-limit class.
C21_BackoffFivePatterns ==
    [][C21_RetryStep({<<"Error", "code:", "429">>,
                      <<"Rate", "Limit", "exceeded">>,
                      <<"Too", "Many", "Requests">>,
                      <<"QUOTA", "exceeded">>,
                      <<"rate_limit", "exceeded">>})]_vars

\* four waits were slept: 1 s for an unclassified error, then jittered
\* 2 s, 4 s and 8 s backoffs, the last one for a message in capitals
C21_Witness ==
    /\ batch.kind = "summary"
    /\ Len(batch.sleeps) = 4
    /\ batch.sleeps[1] = 1000
    /\ batch.sleeps[2] = 1800
    /\ batch.sleeps[3] = 4200
    /\ batch.sleeps[4] = 8000
    /\ batch.last_error = <<"QUOTA", "exceeded">>

\* ---- search claims
\* the match record find_matching_segments builds for a stored segment
MatchOf(seg) ==
    LET scored == FuzzySegmentScore(search.q, seg.text) IN
    [start |-> seg.start, text |-> seg.text,
     score |-> scored.score, exact |-> scored.exact]

Scanned == {p \in 1..Len(search.segments) : p <= search.i}

SearchRan == search.phase \in {"scan", "sorted", "done"} /\ search.q # <<>>

Elems(seq) == {seq[k] : k \in 1..Len(seq)}

C22_QueryIn(seg) ==
    /\ seg.dict
    /\ Strip(search.query) # <<>>
    /\ \E k \in 1..Len(seg.text) :
          /\ k + Len(search.q) - 1 <= Len(seg.text)
          /\ \A d \in 1..Len(search.q) :
                LowerChar(seg.text[k + d - 1]) = LowerChar(search.q[d])

C22_Hit(m, seg) ==
    /\ m.start = seg.start
    /\ m.text = seg.text
    /\ m.exact
    /\ m.score.num = 100 * m.score.den

\* C22: a segment whose text contains the trimmed, non-empty query as a
\* case-insensitive substring is scored 100 with exact true and passes the
\* filter whatever the threshold in [0,100]: once scanned it is among the
\* matches, and it is in the returned list unless max_matches entries, all
\* of them exact matches of score 100, fill that list.
C22_ExactSubstringScores100 ==
    SearchRan =>
      \A p \in Scanned :
         C22_QueryIn(search.segments[p]) =>
            IF search.phase = "done"
            THEN \/ \E m \in Elems(search.result) :
                       C22_Hit(m, search.segments[p])
                 \/ /\ Len(search.result) = search.max_matches
                    /\ \A m \in Elems(search.result) :
                          m.exact /\ m.score.num = 100 * m.score.den
            ELSE \E m \in Elems(search.matches) : C22_Hit(m, search.segments[p])

\* the query " aB" found in "Ab" and returned at threshold 100
C22_Witness ==
    /\ search.phase = "done"
    /\ search.query = <<" ", "a", "B">>
    /\ search.threshold = 100
    /\ \E m \in Elems(search.result) :
          m.text = <<"A", "b">> /\ m.exact /\ m.score.num = 100 * m.score.den

\* C23: whatever the threshold in [0,100], a query that is empty or only
\* whitespace yields no match, and no match is ever emitted for a segment
\* whose text is empty or only whitespace.
C23_BlankNeverMatches ==
    /\ Strip(search.query) = <<>> =>
          search.matches = <<>> /\ search.result = <<>>
    /\ \A m \in Elems(search.matches) \union Elems(search.result) :
          Strip(m.text) # <<>>

\* the segments find_matching_segments lets through the filter
C24_Passing ==
    {p \in 1..Len(search.segments) :
        /\ search.segments[p].dict
        /\ MatchOf(search.segments[p]).score.num
             >= search.threshold * MatchOf(search.segments[p]).score.den}

\* x ranks strictly before y: a higher score, or the same score and an
\* earlier start
C24_RanksBefore(x, y) ==
    \/ x.score.num * y.score.den > y.score.num * x.score.den
    \/ /\ x.score.num * y.score.den = y.score.num * x.score.den
       /\ x.start < y.start

\* C24: the returned list holds only segments of score >= threshold, is
\* sorted by descending score and then ascending start, has at most
\* max_matches entries, and these are the first of that ordering: no
\* passing segment left out ranks before a returned one.
C24_ResultRankedAndTruncated ==
    (search.phase = "done" /\ search.q # <<>>) =>
       LET result == search.result IN
       /\ \A k \in 1..Len(result) :
             /\ result[k].score.num >= search.threshold * result[k].score.den
             /\ \E p \in C24_Passing : result[k] = MatchOf(search.segments[p])
       /\ \A k \in 1..Len(result), l \in 1..Len(result) :
             k < l => ~C24_RanksBefore(result[l], result[k])
       /\ Len(result) <= search.max_matches
       /\ Len(result) = Min(search.max_matches, Cardinality(C24_Passing))
       /\ \A p \in C24_Passing :
             \/ Cardinality({k \in 1..Len(result) :
                               result[k] = MatchOf(search.segments[p])})
                  = Cardinality({r \in C24_Passing :
                               MatchOf(search.segments[r])
                                  = MatchOf(search.segments[p])})
             \/ \A k \in 1..Len(result) :
                   ~C24_RanksBefore(MatchOf(search.segments[p]), result[k])

\* two exact matches stored latest first, and only the earlier one returned
C24_Witness ==
    /\ search.phase = "done"
    /\ search.max_matches = 1
    /\ Len(search.segments) = 2
    /\ search.segments[1].start = 1
    /\ search.segments[2].start = 0
    /\ Cardinality(C24_Passing) = 2
    /\ Len(search.result) = 1
    /\ search.result[1].start = 0
    /\ search.result[1].score.num = 100 * search.result[1].score.den

\* C25: with two workers on one store the claim step excludes nothing: a
\* task a worker has fetched stays among the rows get_pending_task returns
\* to any worker until a commit of running reaches the store, so a second
\* worker can fetch and execute the same task, and each of the two then
\* writes the row (status, end_date, result or error).
C25_ClaimExcludesNothing ==
    \A w \in Workers :
       (pc[w] = "start" /\ tasks[cur[w]].status = "pending") =>
          cur[w] \in GetPendingTask

\* both workers were executing task 1: one stored completed with its result,
\* the other then stored failed with its error over it
C25_Witness ==
    /\ Len(tasks) >= 1
    /\ tasks[1].status = "failed"
    /\ tasks[1].result # NoMsg
    /\ tasks[1].error # NoMsg
    /\ tasks[1].end_date # None

\* C26: correction keeps every segment's start and end at its index. For the
\* latest answered group: the result has one entry per segment of the group
\* whatever ids the response holds (duplicates, ids outside 1..length); the
\* i-th segment has its original text exactly when the response has no entry
\* with id i, and the returned text otherwise; and the stored transcript
\* carries these texts at the group's indices.
C26_MissingIdFallsBackAlone ==
    /\ CorrectionDone =>
          /\ Len(batch.corrected_transcript) = Len(batch.segments)
          /\ \A i \in 1..Len(batch.segments) :
                /\ batch.corrected_transcript[i].start = batch.segments[i].start
                /\ batch.corrected_transcript[i].end = batch.segments[i].end
    /\ (batch.phase \in {"run", "done"} /\ batch.last.group # 0) =>
          LET j == batch.last.group
              group == batch.groups[j]
              response == batch.last.response
              out == batch.results[j]
          IN /\ Len(out) = Len(group)
             /\ \A i \in 1..Len(group) :
                   LET original == batch.segments[group[i][1] + 1].text
                       missing == \A k \in 1..Len(response) : response[k] # i
                   IN /\ out[i][1] = group[i][1]
                      /\ missing => out[i][2] = original
                      /\ ~missing => out[i][2] = [original EXCEPT !.corrected = TRUE]
                      /\ CorrectionDone =>
                            batch.corrected_transcript[group[i][1] + 1].text
                               = out[i][2]

\* a stored correction whose last answer held the id 2 twice and no id 1:
\* the group's first segment kept its text, its second was rewritten
C26_Witness ==
    /\ CorrectionDone
    /\ batch.last.group # 0
    /\ batch.last.response = <<2, 2>>
    /\ Len(batch.groups[batch.last.group]) = 2
    /\ LET idx == batch.groups[batch.last.group][1][1] IN
          /\ ~batch.corrected_transcript[idx + 1].text.corrected
          /\ batch.corrected_transcript[idx + 2].text.corrected

\* the stage at the end of its loading step
Loaded(kind) ==
    batch.phase \in {"call", "loaded", "failed"} /\ batch.kind = kind

C28_EveryTaskTerminates ==
    /\ \A i \in 1..MaxTasks :
          [](Len(tasks) >= i =>
                <>(Len(tasks) >= i /\ tasks[i].status \in Terminal))
    /\ [](pc[1] # "stopped")

\* C29: whatever integer max_concurrency is, a running batch is never stuck
\* (a group can still start, a call is in flight, a waiter can take a free
\* permit, or every group is finished and gather returns), and a finished
\* batch has every permit back.
C29_BatchTerminates ==
    /\ batch.phase = "run" =>
          \/ \E j \in GroupIds : batch.st[j] = "new"
          \/ InFlight # {}
          \/ batch.waiters # <<>> /\ batch.value > 0
          \/ \A j \in GroupIds : batch.st[j] = "done"
    /\ batch.phase = "done" => batch.value = batch.max_concurrency

\* C30: whatever integer segments_per_group is, a correction that returns
\* True has stored one segment per transcript segment, in order, with the
\* same start and end; a value that cannot partition the transcript (zero
\* or negative) makes the handler return False with nothing stored.
C30_CompletedKeepsEverySegment ==
    /\ CorrectionDone =>
          /\ Len(batch.corrected_transcript) = Len(batch.segments)
          /\ \A i \in 1..Len(batch.corrected_transcript) :
                /\ i <= Len(batch.segments)
                /\ batch.corrected_transcript[i].start = batch.segments[i].start
                /\ batch.corrected_transcript[i].end = batch.segments[i].end
    /\ (batch.phase # "off" /\ batch.kind = "correction"
          /\ batch.segments_per_group <= 0) =>
          batch.phase # "done" /\ batch.corrected_transcript = <<>>

====
